---- MODULE Spec2Model ----
(***************************************************************************)
(* Model of the stock dashboard script (src/main.py).  One run of the      *)
(* script is one behaviour: the price download, the derived columns, the   *)
(* price tabs, the dividends and splits tab, the three Alpha Vantage       *)
(* statement blocks and the Polygon news tab, in the order of the source.  *)
(* What the providers answer is fixed in the initial state (env); the      *)
(* script reads it step by step.                                           *)
(*                                                                         *)
(* Numbers.  Closes are integers.  A moving average is kept as the exact   *)
(* fraction num/den; a percentage change is kept in hundredths of a        *)
(* percent (1000 is 10.0 %).  Dates are day numbers: yfinance's daily      *)
(* action index and the sidebar's dates both sit at midnight.              *)
(***************************************************************************)
EXTENDS Integers, Sequences, FiniteSets, TLC

VARIABLES pc, env, calls, data, out

vars == <<pc, env, calls, data, out>>

----------------------------------------------------------------------------
(* Bounds of the model *)

MaxBars == 6
MaxWindow == 6
MaxDate == 4
MaxActions == 3
MaxSplits == 2
MaxArticles == 8

(* Program constants *)

MinWindow == 5
NewsLimit == 5
HeaderRows == 2

----------------------------------------------------------------------------
(* Helpers *)

Min(a, b) == IF a <= b THEN a ELSE b

Abs(x) == IF x < 0 THEN -x ELSE x

RECURSIVE SumRange(_, _, _)
SumRange(s, lo, hi) == IF lo > hi THEN 0 ELSE s[lo] + SumRange(s, lo + 1, hi)

----------------------------------------------------------------------------
(* The page: the tabs of line 70 and the page itself (messages written     *)
(* before any tab exists, and the runner's report of an uncaught           *)
(* exception).                                                             *)

Statements == {"balance_sheet", "income_statement", "cash_flow"}

Sections == {"prices", "actions", "news"} \cup Statements

Places == Sections \cup {"page"}

DataWrite(v) == [kind |-> "data", val |-> v]

ErrorWrite(m) == [kind |-> "error", msg |-> m]

ExceptionWrite == [kind |-> "exception", msg |-> "uncaught"]

Put(o, place, w) == [o EXCEPT ![place] = Append(@, w)]

RECURSIVE PutAll(_, _, _)
PutAll(o, place, ws) ==
    IF ws = <<>> THEN o ELSE PutAll(Put(o, place, Head(ws)), place, Tail(ws))

----------------------------------------------------------------------------
(* Derived columns, lines 61-66 *)

\* Series.rolling(window).mean(): a running sum that adds the new close and
\* drops the one leaving the window; min_periods defaults to the window.
RECURSIVE RollingSum(_, _, _)
RollingSum(close, w, i) ==
    IF i = 0 THEN 0
    ELSE RollingSum(close, w, i - 1) + close[i]
         - (IF i > w THEN close[i - w] ELSE 0)

Absent == [defined |-> FALSE, num |-> 0, den |-> 1]

RollingMeanEager(close, w) ==
    [i \in 1..Len(close) |->
        [defined |-> TRUE, num |-> RollingSum(close, w, i), den |-> Min(i, w)]]

RollingMean(close, w) ==
    [i \in 1..Len(close) |->
        IF i >= w
        THEN [defined |-> TRUE, num |-> RollingSum(close, w, i), den |-> w]
        ELSE Absent]

\* round(x, 2) of the exact quotient num/den (den > 0), in hundredths:
\* to the nearest, a tie to the even neighbour.
RoundHalfEven(num, den) ==
    LET q == num \div den
        r == num - q * den
    IN  IF 2 * r < den THEN q
        ELSE IF 2 * r > den THEN q + 1
        ELSE IF q % 2 = 0 THEN q ELSE q + 1

PctChangeFromFirst(close) ==
    [i \in 1..Len(close) |->
        IF i = 1 THEN 0
        ELSE RoundHalfEven(10000 * (close[i] - close[1]), close[1])]

\* Series.pct_change().fillna(0).apply(lambda x: round(x * 100, 2))
PctChange(close) ==
    [i \in 1..Len(close) |->
        IF i = 1 THEN 0
        ELSE RoundHalfEven(10000 * (close[i] - close[i - 1]), close[i - 1])]

NoData == [close |-> <<>>, ma |-> <<>>, pct |-> <<>>]

----------------------------------------------------------------------------
(* Dividends and splits, lines 112-119 *)

\* index.tz_localize(None): only a DatetimeIndex has it; the wall-clock
\* dates stay, the zone goes.
CanTzLocalize(series) == series.index \in {"aware", "naive"}

TzLocalizeNone(series) == [series EXCEPT !.index = "naive"]

\* Index.searchsorted on the ascending index: how many rows lie before the
\* insertion point of the label x.
RECURSIVE SearchSorted(_, _, _)
SearchSorted(rows, x, side) ==
    IF rows = <<>> THEN 0
    ELSE IF (side = "left" /\ Head(rows).date < x)
            \/ (side = "right" /\ Head(rows).date <= x)
         THEN 1 + SearchSorted(Tail(rows), x, side)
         ELSE 0

LocExclusiveEnd(series, start, end) ==
    [series EXCEPT !.rows =
        SubSeq(series.rows, SearchSorted(series.rows, start, "left") + 1,
                            SearchSorted(series.rows, end, "left"))]

\* series.loc[start_date:end_date]: a label slice, both ends included.
Loc(series, start, end) ==
    [series EXCEPT !.rows =
        SubSeq(series.rows, SearchSorted(series.rows, start, "left") + 1,
                            SearchSorted(series.rows, end, "right"))]

----------------------------------------------------------------------------
(* Statements, lines 141-169 *)

\* balance_sheet.T[2:] with columns = list(balance_sheet.T.iloc[0]); .iloc[0]
\* raises on a table without rows.
CanReshape(table) == Len(table) >= 1

Reshape(table) ==
    [columns |-> table[1],
     rows |-> SubSeq(table, HeaderRows + 1, Len(table))]

StatementError == "Error fetching Cash Flow Statement data.API limit Reached."

StatementCall(kind) ==
    CASE kind = "balance_sheet" -> "get_balance_sheet_annual"
      [] kind = "income_statement" -> "get_income_statement_annual"
      [] kind = "cash_flow" -> "get_cash_flow_annual"

----------------------------------------------------------------------------
(* News, lines 182-211 *)

\* article.get(key, 'N/A')
Get(article, key) == IF key \in article.keys THEN article[key] ELSE "N/A"

LastSentiment(article) ==
    IF "insights" \in article.keys /\ article.insights # <<>>
    THEN Get(article.insights[Len(article.insights)], "sentiment")
    ELSE "N/A"

\* line 203
Sentiment(article) ==
    IF "insights" \in article.keys /\ article.insights # <<>>
    THEN Get(article.insights[1], "sentiment")
    ELSE "N/A"

\* line 204
SourceName(article) ==
    IF "publisher" \in article.keys THEN Get(article.publisher, "name") ELSE "N/A"

\* lines 205-208
Image(article) ==
    IF "image_url" \in article.keys /\ article.image_url # ""
    THEN article.image_url
    ELSE "Not Available"

\* lines 199-209, one pass of the loop
Item(article) ==
    [published_at |-> Get(article, "published_utc"),
     title |-> Get(article, "title"),
     summary |-> Get(article, "description"),
     sentiment |-> Sentiment(article),
     source_name |-> SourceName(article),
     image |-> Image(article)]

DigestAll(results) == [i \in 1..Len(results) |-> Item(results[i])]

\* line 198: for i, article in enumerate(news_data[:5])
Digest(results) ==
    [i \in 1..Min(NewsLimit, Len(results)) |-> Item(results[i])]

\* get_stock_news_polygon: what it returns (none, or the results) and the
\* errors it writes on the way.
GetStockNewsPolygon(news) ==
    IF news.status # "ok"
    THEN [none |-> TRUE, results |-> <<>>,
          errors |-> <<ErrorWrite("Error fetching news")>>]
    ELSE IF news.has_results
    THEN [none |-> FALSE, results |-> news.results, errors |-> <<>>]
    ELSE [none |-> TRUE, results |-> <<>>, errors |-> <<>>]

NewsWritesSilent(ret) ==
    IF ~ret.none /\ ret.results # <<>>
    THEN <<DataWrite(Digest(ret.results))>>
    ELSE <<>>

\* lines 197-211: the truth test of the returned value and what is written
NewsWrites(ret) ==
    IF ~ret.none /\ ret.results # <<>>
    THEN <<DataWrite(Digest(ret.results))>>
    ELSE <<ErrorWrite("No news articles found for the specified ticker.")>>

----------------------------------------------------------------------------
(* The run of the script *)

Terminal == {"done", "stopped", "crashed"}

PriceFails(e) == e.price.status = "raise" \/ e.price.close = <<>>

SeriesFails(series) == series.status = "raise" \/ ~CanTzLocalize(series)

ActionsFail(e) == SeriesFails(e.actions.dividends) \/ SeriesFails(e.actions.splits)

StatementFails(e, kind) ==
    e.stmt[kind].status = "raise" \/ ~CanReshape(e.stmt[kind].table)

NewsFetchFails(e) == e.news.status # "ok" \/ ~e.news.has_results

FetchPricesNoStop ==
    /\ pc = "download"
    /\ calls' = Append(calls, "yf.download")
    /\ IF env.price.status = "raise"
       THEN /\ out' = Put(out, "page", ErrorWrite("Error fetching data"))
            /\ pc' = "stopped"
            /\ data' = data
       ELSE /\ out' = IF env.price.close = <<>>
                      THEN Put(out, "page", ErrorWrite("No data found"))
                      ELSE out
            /\ pc' = "derive"
            /\ data' = [NoData EXCEPT !.close = env.price.close]
    /\ UNCHANGED env

\* lines 52-59.  st.stop() ends the run by raising Streamlit's StopException,
\* which is not an Exception subclass: the handler of line 57 lets it pass.
FetchPrices ==
    /\ pc = "download"
    /\ calls' = Append(calls, "yf.download")
    /\ IF env.price.status = "raise"
       THEN /\ out' = Put(out, "page", ErrorWrite("Error fetching data"))
            /\ pc' = "stopped"
            /\ data' = data
       ELSE IF env.price.close = <<>>
       THEN /\ out' = Put(out, "page", ErrorWrite("No data found"))
            /\ pc' = "stopped"
            /\ data' = data
       ELSE /\ out' = out
            /\ pc' = "derive"
            /\ data' = [NoData EXCEPT !.close = env.price.close]
    /\ UNCHANGED env

\* lines 61-66
Derive ==
    /\ pc = "derive"
    /\ data' = [data EXCEPT !.ma = RollingMean(data.close, env.req.window),
                            !.pct = PctChange(data.close)]
    /\ pc' = "price_tabs"
    /\ UNCHANGED <<env, calls, out>>

\* lines 74-107: the raw data table and the three charts
PriceTabs ==
    /\ pc = "price_tabs"
    /\ out' = Put(out, "prices", DataWrite(data))
    /\ pc' = "actions"
    /\ UNCHANGED <<env, calls, data>>

\* lines 110-131.  Nothing here is inside a try: an exception of the
\* dividends or splits access, or of tz_localize, ends the run, and the
\* script runner reports it on the page.
ActionsTab ==
    LET dividends == env.actions.dividends
        splits == env.actions.splits
        start == env.req.start
        end == env.req.end
    IN  /\ pc = "actions"
        /\ calls' = calls \o <<"ticker.dividends">>
                          \o (IF SeriesFails(dividends) THEN <<>>
                              ELSE <<"ticker.splits">>)
        /\ IF SeriesFails(dividends) \/ SeriesFails(splits)
           THEN /\ out' = Put(out, "page", ExceptionWrite)
                /\ pc' = "crashed"
           ELSE /\ out' = Put(out, "actions", DataWrite(
                    [dividends |-> Loc(TzLocalizeNone(dividends), start, end).rows,
                     splits |-> Loc(TzLocalizeNone(splits), start, end).rows]))
                /\ pc' = "balance_sheet"
        /\ UNCHANGED <<env, data>>

StatementBlockUnguarded(kind, next) ==
    /\ pc = kind
    /\ calls' = Append(calls, StatementCall(kind))
    /\ IF StatementFails(env, kind)
       THEN /\ out' = Put(out, "page", ExceptionWrite)
            /\ pc' = "crashed"
       ELSE /\ out' = Put(out, kind, DataWrite(Reshape(env.stmt[kind].table)))
            /\ pc' = next
    /\ UNCHANGED <<env, data>>

\* lines 141-149, 151-159, 161-169: one try block per statement; the fetch
\* and the reshape come before the table is written.
StatementBlock(kind, next) ==
    /\ pc = kind
    /\ calls' = Append(calls, StatementCall(kind))
    /\ out' = IF StatementFails(env, kind)
              THEN Put(out, kind, ErrorWrite(StatementError))
              ELSE Put(out, kind, DataWrite(Reshape(env.stmt[kind].table)))
    /\ pc' = next
    /\ UNCHANGED <<env, data>>

BalanceSheet == StatementBlock("balance_sheet", "income_statement")

IncomeStatement == StatementBlock("income_statement", "cash_flow")

CashFlow == StatementBlock("cash_flow", "news")

\* lines 175-211
NewsTab ==
    LET ret == GetStockNewsPolygon(env.news)
    IN  /\ pc = "news"
        /\ calls' = Append(calls, "requests.get")
        /\ out' = PutAll(out, "news", ret.errors \o NewsWrites(ret))
        /\ pc' = "done"
        /\ UNCHANGED <<env, data>>

Next ==
    \/ FetchPrices
    \/ Derive
    \/ PriceTabs
    \/ ActionsTab
    \/ BalanceSheet
    \/ IncomeStatement
    \/ CashFlow
    \/ NewsTab

----------------------------------------------------------------------------
(* What the sidebar and the providers can hand to a run *)

SeqsUpTo(S, n) == UNION {[1..k -> S] : k \in 0..n}

\* the slider of line 47 starts at 5; 2 is the window of the worked example
Windows == {2} \cup (MinWindow..MaxWindow)

CloseValues == {32, 99, 100, 110}

PriceRaises == [status |-> "raise", close |-> <<>>]

PriceOk(close) == [status |-> "ok", close |-> close]

Req(start, end, window) == [start |-> start, end |-> end, window |-> window]

Dates == 1..MaxDate

\* a dividend or split history as yfinance returns it: ascending by date;
\* the value of a row tells the rows of one day apart
Histories(n) ==
    {[i \in 1..Len(ds) |-> [date |-> ds[i], value |-> i]] :
        ds \in {d \in SeqsUpTo(Dates, n) :
                  \A i \in 1..(Len(d) - 1) : d[i] <= d[i + 1]}}

SeriesRaises == [status |-> "raise", index |-> "none", rows |-> <<>>]

\* an empty Series without a DatetimeIndex
SeriesPlain == [status |-> "ok", index |-> "plain", rows |-> <<>>]

SeriesOk(rows) == [status |-> "ok", index |-> "aware", rows |-> rows]

Actions(dividends, splits) == [dividends |-> dividends, splits |-> splits]

StmtRaises == [status |-> "raise", table |-> <<>>]

StmtTable(table) == [status |-> "ok", table |-> table]

\* the transposed annual reports: fiscalDateEnding, reportedCurrency, then
\* one row per metric
ReportTable ==
    << <<"2023-12-31", "2022-12-31">>, <<"USD", "USD">>,
       <<"352583", "352755">>, <<"143566", "135405">> >>

StmtOutcomes == {StmtRaises, StmtTable(<<>>), StmtTable(ReportTable)}

Insight(keys, sentiment) == [keys |-> keys, sentiment |-> sentiment]

InsightLists ==
    { <<>>,
      <<Insight({"sentiment"}, "positive")>>,
      <<Insight({}, "")>>,
      <<Insight({"sentiment"}, "positive"), Insight({"sentiment"}, "negative")>>,
      <<Insight({}, ""), Insight({"sentiment"}, "negative")>> }

Publisher(keys) == [keys |-> keys, name |-> IF "name" \in keys THEN "Reuters" ELSE ""]

\* an article with the given keys present; title t, insights ins, publisher pub
Article(keys, t, ins, pub, img) ==
    [keys |-> keys,
     published_utc |-> IF "published_utc" \in keys THEN "2024-06-01T12:00:00Z" ELSE "",
     title |-> IF "title" \in keys THEN t ELSE "",
     description |-> IF "description" \in keys THEN "summary" ELSE "",
     insights |-> IF "insights" \in keys THEN ins ELSE <<>>,
     publisher |-> IF "publisher" \in keys THEN pub ELSE Publisher({}),
     image_url |-> IF "image_url" \in keys THEN img ELSE ""]

ArticleKeys ==
    {"published_utc", "title", "description", "insights", "publisher", "image_url"}

\* every subset of the fields missing, every shape of the nested ones
ArticleShapes ==
    {Article(keys, "headline", ins, pub, img) :
        keys \in SUBSET ArticleKeys, ins \in InsightLists,
        pub \in {Publisher({}), Publisher({"name"})}, img \in {"", "http://img"}}

FullArticle(n) ==
    Article(ArticleKeys, ToString(n), <<Insight({"sentiment"}, "positive")>>,
            Publisher({"name"}), "http://img")

\* n articles, newest first or oldest first
Listing(n, order) ==
    [i \in 1..n |-> FullArticle(IF order = "asc" THEN i ELSE n + 1 - i)]

NewsTransportError == [status |-> "transport_error", has_results |-> FALSE, results |-> <<>>]

NewsHttpError == [status |-> "http_error", has_results |-> FALSE, results |-> <<>>]

NewsNoResults == [status |-> "ok", has_results |-> FALSE, results |-> <<>>]

NewsResults(results) == [status |-> "ok", has_results |-> TRUE, results |-> results]

NewsFailures == {NewsTransportError, NewsHttpError, NewsNoResults}

InitWith(prices, reqs, dividends, splits, stmts, news) ==
    /\ pc = "download"
    /\ env \in [price : prices, req : reqs,
                actions : [dividends : dividends, splits : splits],
                stmt : [Statements -> stmts], news : news]
    /\ calls = <<>>
    /\ data = NoData
    /\ out = [p \in Places |-> <<>>]

SmallHistory == [i \in 1..3 |-> [date |-> i, value |-> i]]

\* every provider failing or answering, on small data
Init ==
    InitWith({PriceRaises, PriceOk(<<>>), PriceOk(<<100, 110, 99>>)},
             {Req(2, 3, MinWindow)},
             {SeriesRaises, SeriesPlain, SeriesOk(SmallHistory)},
             {SeriesRaises, SeriesOk(<<>>)},
             StmtOutcomes,
             NewsFailures \cup {NewsResults(Listing(n, "asc")) : n \in {0, 1, 6}})

Spec == Init /\ [][Next]_vars

\* the derived columns on every price series up to MaxBars bars
InitNormalize ==
    InitWith({PriceRaises} \cup {PriceOk(c) : c \in SeqsUpTo(CloseValues, MaxBars)},
             {Req(2, 3, w) : w \in Windows},
             {SeriesOk(SmallHistory)},
             {SeriesOk(<<>>)},
             {StmtTable(ReportTable)},
             {NewsResults(Listing(1, "asc"))})

SpecNormalize == InitNormalize /\ [][Next]_vars

\* the range filter on every history and every pair of dates
InitFilter ==
    InitWith({PriceOk(<<100, 110, 99>>)},
             {Req(s, e, MinWindow) : s \in Dates, e \in Dates},
             {SeriesOk(h) : h \in Histories(MaxActions)},
             {SeriesOk(h) : h \in Histories(MaxSplits)},
             {StmtTable(ReportTable)},
             {NewsResults(Listing(1, "asc"))})

SpecFilter == InitFilter /\ [][Next]_vars

\* the news digest on every article shape and on listings up to MaxArticles
InitDigest ==
    InitWith({PriceOk(<<100, 110, 99>>)},
             {Req(2, 3, MinWindow)},
             {SeriesOk(SmallHistory)},
             {SeriesOk(<<>>)},
             {StmtTable(ReportTable)},
             NewsFailures
               \cup {NewsResults(<<a>>) : a \in ArticleShapes}
               \cup {NewsResults(Listing(n, o)) : n \in 0..MaxArticles, o \in {"asc", "desc"}})

SpecDigest == InitDigest /\ [][Next]_vars

----------------------------------------------------------------------------
(* Properties *)

Kinds(place) == [i \in 1..Len(out[place]) |-> out[place][i].kind]

HasData(place) == \E i \in 1..Len(out[place]) : out[place][i].kind = "data"

ErrorCount(place) ==
    Cardinality({i \in 1..Len(out[place]) : out[place][i].kind = "error"})

Called(name) == \E i \in 1..Len(calls) : calls[i] = name

\* the statement blocks that a run at pc has left behind
Passed(kind) ==
    CASE kind = "balance_sheet" -> pc \in {"income_statement", "cash_flow", "news", "done"}
      [] kind = "income_statement" -> pc \in {"cash_flow", "news", "done"}
      [] kind = "cash_flow" -> pc \in {"news", "done"}

\* the articles the news tab has shown
NewsItems == IF HasData("news") THEN out["news"][Len(out["news"])].val ELSE <<>>

\* C1: when the price download raises or returns nothing, the run stops
\* there: the download is the only provider call, no tab receives anything,
\* and the page carries exactly one error message.
C1_PriceFailureAborts ==
    PriceFails(env) =>
        /\ \A i \in 1..Len(calls) : calls[i] = "yf.download"
        /\ \A s \in Sections : out[s] = <<>>
        /\ pc \in {"download", "stopped"}
        /\ pc = "stopped" => Kinds("page") = <<"error">>

C1_Witness ==
    /\ pc = "stopped"
    /\ env.price = PriceOk(<<>>)
    /\ calls = <<"yf.download">>

\* C2: when the prices arrive and the dividends or splits step fails, the
\* failure is an error marker of the actions tab, and the three statements
\* and the news are still evaluated, each ending as data or as its own error.
C2_ActionsFailureIsLocal ==
    (pc \in Terminal /\ ~PriceFails(env) /\ ActionsFail(env)) =>
        /\ ErrorCount("actions") >= 1
        /\ \A s \in Statements \cup {"news"} : out[s] # <<>>

\* C3: each statement block ends as a function of its own provider answer
\* alone (one error marker when its fetch or reshape fails, its table
\* otherwise), whatever the other two answer; a failing statement never ends
\* the run, so the later statements are fetched and the news tab is reached.
C3_StatementsIndependent ==
    /\ \A k \in Statements :
          Passed(k) =>
              /\ Called(StatementCall(k))
              /\ out[k] = IF StatementFails(env, k)
                          THEN <<ErrorWrite(StatementError)>>
                          ELSE <<DataWrite(Reshape(env.stmt[k].table))>>
    /\ pc = "crashed" => \A k \in Statements : ~Called(StatementCall(k))
    /\ pc = "done" => Called("requests.get") /\ out["news"] # <<>>
    /\ (pc \in Terminal /\ Called(StatementCall("balance_sheet"))) => pc = "done"

C3_Witness ==
    /\ pc = "done"
    /\ env.stmt["balance_sheet"] = StmtRaises
    /\ env.stmt["income_statement"] = StmtTable(ReportTable)
    /\ env.stmt["cash_flow"] = StmtTable(<<>>)
    /\ HasData("income_statement")
    /\ HasData("news")

OnlyNewsFails ==
    /\ ~PriceFails(env)
    /\ ~ActionsFail(env)
    /\ \A k \in Statements : ~StatementFails(env, k)
    /\ NewsFetchFails(env)

\* C4: when only the news fetch fails (transport or HTTP error, or a payload
\* without results), the run ends with the prices, the actions and the three
\* statements populated and with an error marker, and no articles, in the
\* news tab.
C4_OnlyNewsFails ==
    (pc \in Terminal /\ OnlyNewsFails) =>
        /\ pc = "done"
        /\ \A s \in Sections \ {"news"} : Kinds(s) = <<"data">>
        /\ ~HasData("news")
        /\ ErrorCount("news") >= 1

C4_Witness ==
    /\ pc = "done"
    /\ OnlyNewsFails
    /\ env.news = NewsNoResults
    /\ ErrorCount("news") = 1

\* C5: the news tab shows exactly the first min(n, 5) of the n articles of
\* the results, in the provider's order; never more than 5; of 8 articles
\* it shows the first five in order.
C5_FirstFiveInOrder ==
    (pc = "done" /\ env.news.status = "ok" /\ env.news.has_results) =>
        LET results == env.news.results
        IN  /\ Len(NewsItems) = Min(Len(results), 5)
            /\ Len(NewsItems) <= 5
            /\ \A i \in 1..Len(NewsItems) :
                  NewsItems[i].title = Get(results[i], "title")
            /\ results = Listing(8, "asc") =>
                  [i \in 1..Len(NewsItems) |-> NewsItems[i].title]
                      = <<"1", "2", "3", "4", "5">>
            /\ results = Listing(8, "desc") =>
                  [i \in 1..Len(NewsItems) |-> NewsItems[i].title]
                      = <<"8", "7", "6", "5", "4">>

C5_Witness ==
    /\ pc = "done"
    /\ env.news = NewsResults(Listing(8, "desc"))
    /\ Len(NewsItems) = 5

\* C6: with results at hand, every article among the first five yields an
\* item whatever fields it lacks: a missing date, title, description or
\* publisher reads "N/A", a missing image reads as not available, and the
\* sentiment is that of the first insight when there are insights and the
\* first one has a sentiment, "N/A" otherwise.
C6_MissingFieldsDegrade ==
    (pc \in Terminal /\ env.news.status = "ok" /\ env.news.has_results
       /\ env.news.results # <<>> /\ ~PriceFails(env) /\ ~ActionsFail(env)) =>
        LET results == env.news.results
        IN  /\ pc = "done"
            /\ Kinds("news") = <<"data">>
            /\ Len(NewsItems) = Min(Len(results), 5)
            /\ \A i \in 1..Len(NewsItems) :
                  LET a == results[i]
                      it == NewsItems[i]
                  IN  /\ it.published_at = IF "published_utc" \in a.keys
                                           THEN a.published_utc ELSE "N/A"
                      /\ it.title = IF "title" \in a.keys THEN a.title ELSE "N/A"
                      /\ it.summary = IF "description" \in a.keys
                                      THEN a.description ELSE "N/A"
                      /\ "publisher" \notin a.keys => it.source_name = "N/A"
                      /\ ("publisher" \in a.keys /\ "name" \in a.publisher.keys)
                            => it.source_name = a.publisher.name
                      /\ "image_url" \notin a.keys => it.image = "Not Available"
                      /\ it.sentiment =
                            IF /\ "insights" \in a.keys
                               /\ Len(a.insights) >= 1
                               /\ "sentiment" \in a.insights[1].keys
                            THEN a.insights[1].sentiment
                            ELSE "N/A"

C6_Witness ==
    /\ pc = "done"
    /\ Len(env.news.results) = 1
    /\ env.news.results[1].keys = {}
    /\ Len(NewsItems) = 1
    /\ NewsItems[1].sentiment = "N/A"
    /\ NewsItems[1].image = "Not Available"

\* C7: for start_date <= end_date the actions tab shows exactly the
\* dividends, and exactly the splits, dated d with start_date <= d <=
\* end_date, in their original order: both boundary dates are in, everything
\* outside is out.
C7_RangeFilter ==
    (Passed("balance_sheet") /\ env.req.start <= env.req.end) =>
        LET InRange(row) == env.req.start <= row.date /\ row.date <= env.req.end
        IN  out["actions"] =
              <<DataWrite([dividends |-> SelectSeq(env.actions.dividends.rows, InRange),
                           splits |-> SelectSeq(env.actions.splits.rows, InRange)])>>

C7_Witness ==
    /\ pc = "done"
    /\ env.req.start = 2
    /\ env.req.end = 3
    /\ [i \in 1..Len(env.actions.dividends.rows) |-> env.actions.dividends.rows[i].date]
          = <<1, 2, 3>>
    /\ [i \in 1..Len(env.actions.splits.rows) |-> env.actions.splits.rows[i].date]
          = <<3, 4>>
    /\ Len(out["actions"][1].val.dividends) = 2
    /\ Len(out["actions"][1].val.splits) = 1

Derived == pc \notin {"download", "derive", "stopped"}

\* C8: the table keeps one row per bar in the same order; the moving
\* average of row i exists exactly when i >= ma_window - 1 (counting from 0)
\* and is then the mean of the ma_window closes ending at row i.  Closes
\* 100, 110, 99 with window 2 give absent, 105.0, 104.5.
C8_MovingAverage ==
    Derived =>
        LET close == env.price.close
            w == env.req.window
        IN  /\ data.close = close
            /\ Len(data.ma) = Len(close)
            /\ Len(data.pct) = Len(close)
            /\ \A i \in 1..Len(close) :
                  /\ data.ma[i].defined <=> i >= w
                  /\ data.ma[i].defined =>
                        data.ma[i].num = SumRange(close, i - w + 1, i)
                  /\ data.ma[i].defined => data.ma[i].den = w
            /\ Len(close) < w => \A i \in 1..Len(close) : ~data.ma[i].defined
            /\ (close = <<100, 110, 99>> /\ w = 2) =>
                  /\ ~data.ma[1].defined
                  /\ 10 * data.ma[2].num = 1050 * data.ma[2].den
                  /\ 10 * data.ma[3].num = 1045 * data.ma[3].den

C8_Witness ==
    /\ pc = "done"
    /\ env.req.window = 5
    /\ Len(env.price.close) = 6
    /\ ~data.ma[4].defined
    /\ data.ma[6].defined
    /\ env.price.close[1] # env.price.close[6]

\* C9: the percentage change of the first row is 0.0; that of a later row is
\* 100 x (close[i] / close[i-1] - 1) rounded to two decimals, against the
\* bar just before and no other.  Closes 100, 110, 99 give 0.0, 10.0, -10.0.
C9_PctChange ==
    Derived =>
        LET close == env.price.close
        IN  /\ Len(data.pct) = Len(close)
            /\ Len(close) >= 1 => data.pct[1] = 0
            /\ \A i \in 2..Len(close) :
                  2 * Abs(data.pct[i] * close[i - 1] - 10000 * (close[i] - close[i - 1]))
                      <= close[i - 1]
            /\ close = <<100, 110, 99>> => data.pct = <<0, 1000, -1000>>

C9_Witness ==
    /\ pc = "done"
    /\ env.price.close = <<100, 110, 99, 32>>
    /\ data.pct = <<0, 1000, -1000, -6768>>

\* C10: in a run that gets past the price download every tab after the
\* prices ends with exactly one write, its data or one error marker.
C10_EachSectionWrittenOnce ==
    (pc \in Terminal /\ ~PriceFails(env)) =>
        \A s \in Sections \ {"prices"} :
            Kinds(s) \in {<<"data">>, <<"error">>}

====
